---- MODULE Spec2Model ----
(***************************************************************************)
(* Configuration resolution of mcp_agent/config.py: the upward file        *)
(* locator (Settings._find_config), the recursive dictionary merge         *)
(* (get_settings.deep_merge) and the memoising resolver (get_settings).    *)
(***************************************************************************)
EXTENDS Integers, Sequences, FiniteSets, TLC

VARIABLES
    heap0,      \* deep_merge run: the dict objects before the call
    heap,       \* deep_merge run: the dict objects now
    baseA,      \* deep_merge run: address of the base argument
    updateA,    \* deep_merge run: address of the update argument
    resultA,    \* deep_merge run: address of the returned dict, 0 before return
    mpc,        \* deep_merge run: "idle", "ready" or "done"
    fs,         \* the filesystem: the existing paths and what each holds
    cwd,        \* Path.cwd(), a directory
    filenames,  \* locator run: the candidate filenames of the call
    loc,        \* locator run: position and locals of _find_config
    _settings,  \* the module global: None or the cached Settings object
    objs,       \* the Settings objects constructed so far; an object is its index
    call,       \* what the last get_settings call did
    thr,        \* concurrent callers: position and locals of each thread
    written     \* concurrent callers: the objects assigned to _settings, in order

mvars == <<heap0, heap, baseA, updateA, resultA, mpc>>

evars == <<fs, cwd>>

lvars == <<filenames, loc>>

svars == <<_settings, objs, call>>

tvars == <<thr, written>>

(***************************************************************************)
(* Python values as yaml.safe_load produces them.  A scalar is a number, a *)
(* list carries its items, a dict carries its key/value function.  Inside  *)
(* the heap a dict value is a reference: v is the address of the object.   *)
(***************************************************************************)
MaxScalar == 3

Scalars == 1..MaxScalar

Lists == {<<1>>, <<2>>}

None == 0

EmptyDict == [k \in {} |-> 0]

Scalar(n) == [kind |-> "scalar", v |-> n, items |-> <<>>, kv |-> EmptyDict]

ListV(s) == [kind |-> "list", v |-> 0, items |-> s, kv |-> EmptyDict]

Dict(f) == [kind |-> "dict", v |-> 0, items |-> <<>>, kv |-> f]

Ref(a) == [kind |-> "dict", v |-> a, items |-> <<>>, kv |-> EmptyDict]

\* isinstance(value, dict)
IsDict(value) == value.kind = "dict"

Leaves == {Scalar(n) : n \in Scalars} \cup {ListV(s) : s \in Lists}

\* every dict whose keys are among ks and whose values are among vals
DictsOver(ks, vals) == UNION {{Dict(f) : f \in [sub -> vals]} : sub \in SUBSET ks}

Trees3 == DictsOver({"z"}, Leaves)

Trees2 == DictsOver({"x", "y"}, Leaves \cup Trees3)

Trees1 == DictsOver({"a"}, Leaves \cup Trees2)

\* the order in which a dict is iterated; every key of the model is listed
KeyOrder == <<"a", "execution_engine", "x", "y", "z">>

\* dict.items(): the keys of the cell in iteration order
Items(cell) == SelectSeq(KeyOrder, LAMBDA k : k \in DOMAIN cell)

(***************************************************************************)
(* The heap: a sequence of dict objects, an object being the function from *)
(* its keys to its values; the address of an object is its index.          *)
(***************************************************************************)
RECURSIVE Alloc(_, _)
RECURSIVE AllocItems(_, _, _, _)
\* build the dict t in the heap h; the result is the new heap and the address
Alloc(h, t) ==
    LET h1 == Append(h, EmptyDict)
    IN  AllocItems(h1, Len(h1), t, Items(t.kv))

AllocItems(h, a, t, ks) ==
    IF ks = <<>> THEN [h |-> h, r |-> a]
    ELSE LET key == Head(ks)
             value == t.kv[key]
         IN  IF IsDict(value)
             THEN LET sub == Alloc(h, value)
                  IN  AllocItems([sub.h EXCEPT ![a] = (key :> Ref(sub.r)) @@ @],
                                 a, t, Tail(ks))
             ELSE AllocItems([h EXCEPT ![a] = (key :> value) @@ @], a, t, Tail(ks))

RECURSIVE Read(_, _)
\* the value (structure, identities forgotten) of the dict object at address a
Read(h, a) ==
    Dict([k \in DOMAIN h[a] |->
            IF IsDict(h[a][k]) THEN Read(h, h[a][k].v) ELSE h[a][k]])

\* merged[key] = value
SetItem(h, a, key, value) == [h EXCEPT ![a] = (key :> value) @@ @]

\* base.copy() with the copy forgotten: merged is base itself
copy_alias(h, base) == [h |-> h, r |-> base]

\* merged = base.copy(): a new object with the same keys and the same values
copy(h, base) == [h |-> Append(h, h[base]), r |-> Len(h) + 1]

\* the else branch taken always: the update value replaces the base value
ShouldRecurse_never(cell, key, value) == FALSE

\* key in merged and isinstance(merged[key], dict) and isinstance(value, dict)
ShouldRecurse(cell, key, value) ==
    /\ key \in DOMAIN cell
    /\ IsDict(cell[key])
    /\ IsDict(value)

RECURSIVE deep_merge(_, _, _)
RECURSIVE MergeLoop(_, _, _, _)
\* deep_merge(base, update) on the heap h; the result is the heap after the
\* call and the address of the returned dict
deep_merge(h, base, update) ==
    LET c == copy(h, base)
    IN  MergeLoop(c.h, c.r, update, Items(c.h[update]))

\* for key, value in update.items(): ...
MergeLoop(h, merged, update, ks) ==
    IF ks = <<>> THEN [h |-> h, r |-> merged]
    ELSE LET key == Head(ks)
             value == h[update][key]
         IN  IF ShouldRecurse(h[merged], key, value)
             THEN LET sub == deep_merge(h, h[merged][key].v, value.v)
                  IN  MergeLoop(SetItem(sub.h, merged, key, Ref(sub.r)),
                                merged, update, Tail(ks))
             ELSE MergeLoop(SetItem(h, merged, key, value), merged, update, Tail(ks))

(***************************************************************************)
(* A run of deep_merge on two argument trees.                              *)
(***************************************************************************)
MergeIdle ==
    /\ heap0 = <<>> /\ heap = <<>>
    /\ baseA = 0 /\ updateA = 0 /\ resultA = 0
    /\ mpc = "idle"

\* the caller builds two separate trees, or passes one tree twice
MergeArgs ==
    /\ mpc = "idle"
    /\ \E b \in Trees1, u \in Trees1, same \in BOOLEAN :
          LET hb == Alloc(<<>>, b)
              hu == Alloc(hb.h, u)
          IN  /\ heap0' = IF same THEN hb.h ELSE hu.h
              /\ heap' = heap0'
              /\ baseA' = hb.r
              /\ updateA' = IF same THEN hb.r ELSE hu.r
    /\ resultA' = 0
    /\ mpc' = "ready"
    /\ UNCHANGED <<evars, lvars, svars, tvars>>

MergeCall ==
    /\ mpc = "ready"
    /\ LET m == deep_merge(heap, baseA, updateA)
       IN  /\ heap' = m.h
           /\ resultA' = m.r
    /\ mpc' = "done"
    /\ UNCHANGED <<heap0, baseA, updateA, evars, lvars, svars, tvars>>

(***************************************************************************)
(* The filesystem.  Directories form one chain: directory 0 is the root,   *)
(* the directory whose parent is itself, and the parent of d > 0 is d - 1. *)
(* A path is a directory and a filename.                                   *)
(***************************************************************************)
MaxDepth == 2

Dirs == 0..MaxDepth

\* Path.parent
parent(d) == IF d = 0 THEN 0 ELSE d - 1

ConfigNames == <<"mcp-agent.config.yaml", "mcp_agent.config.yaml">>

SecretsNames == <<"mcp-agent.secrets.yaml", "mcp_agent.secrets.yaml">>

CustomName == "custom.yaml"

Range(seq) == {seq[i] : i \in 1..Len(seq)}

\* current_dir / filename
Join(d, name) == [dir |-> d, name |-> name]

\* the Path | None result None
NoPath == [dir |-> 0 - 1, name |-> ""]

File(kind, tree) == [kind |-> kind, tree |-> tree]

\* Path.exists()
exists(f, p) == p \in DOMAIN f

(***************************************************************************)
(* Settings._find_config, one step of its control flow at a time.  The     *)
(* locals are current_dir and the position i in filenames; visits counts   *)
(* (up to 2) how often the loop body was entered for each directory.       *)
(***************************************************************************)
LocIdle == [pc |-> "idle", current_dir |-> 0, i |-> 1, ret |-> NoPath,
            visits |-> [d \in Dirs |-> 0]]

\* current_dir = Path.cwd()
LocEnter(c) == [LocIdle EXCEPT !.pc = "while", !.current_dir = c]

\* the candidates of one directory tested last to first
LocCandidate_reversed(names, s) == Join(s.current_dir, names[Len(names) + 1 - s.i])

\* config_path = current_dir / filename
LocCandidate(names, s) == Join(s.current_dir, names[s.i])

\* the walk forgets to move to the parent directory
LocAdvance_stay(s) == s.current_dir

\* current_dir = current_dir.parent
LocAdvance(s) == parent(s.current_dir)

LocStep(f, names, s) ==
    IF s.pc = "while"
    THEN \* while current_dir != current_dir.parent:
         IF s.current_dir # parent(s.current_dir)
         THEN [s EXCEPT !.pc = "for", !.i = 1,
                        !.visits[s.current_dir] = IF @ < 2 THEN @ + 1 ELSE @]
         ELSE [s EXCEPT !.pc = "done", !.ret = NoPath]
    ELSE \* for filename in filenames:
         IF s.i > Len(names)
         THEN [s EXCEPT !.pc = "while", !.current_dir = LocAdvance(s)]
         ELSE IF exists(f, LocCandidate(names, s))
              THEN [s EXCEPT !.pc = "done", !.ret = LocCandidate(names, s)]
              ELSE [s EXCEPT !.i = @ + 1]

RECURSIVE LocRun(_, _, _)
LocRun(f, names, s) == IF s.pc = "done" THEN s.ret ELSE LocRun(f, names, LocStep(f, names, s))

\* Settings._find_config(filenames) as a call that returns
_find_config(f, c, names) == LocRun(f, names, LocEnter(c))

find_config(f, c) == _find_config(f, c, ConfigNames)

find_secrets(f, c) == _find_config(f, c, SecretsNames)

\* the directories from c up to and including the root
Chain(c) == 0..c

\* a filesystem holding (empty) files at exactly the paths of ps
FsWith(ps) == [p \in ps |-> File("null", Dict(EmptyDict))]

LocatorEnv ==
    /\ cwd \in Dirs
    /\ \E names \in {ConfigNames, SecretsNames} :
         \E ps \in SUBSET {Join(d, n) : d \in Dirs, n \in Range(names)} :
            fs = FsWith(ps)
    /\ filenames = <<>>
    /\ loc = LocIdle

\* Settings.find_config()
FindConfigCall ==
    /\ loc.pc \in {"idle", "done"}
    /\ filenames' = ConfigNames
    /\ loc' = LocEnter(cwd)
    /\ UNCHANGED <<mvars, evars, svars, tvars>>

\* Settings.find_secrets()
FindSecretsCall ==
    /\ loc.pc \in {"idle", "done"}
    /\ filenames' = SecretsNames
    /\ loc' = LocEnter(cwd)
    /\ UNCHANGED <<mvars, evars, svars, tvars>>

FindStep ==
    /\ loc.pc \in {"while", "for"}
    /\ loc' = LocStep(fs, filenames, loc)
    /\ UNCHANGED <<mvars, evars, filenames, svars, tvars>>

(***************************************************************************)
(* get_settings.  A file holds malformed YAML ("malformed"), an empty      *)
(* document ("null": safe_load gives None), a document that is not a       *)
(* mapping ("nonmap") or a mapping ("dict", with its tree).                *)
(***************************************************************************)
EmptyTree == Dict(EmptyDict)

\* the values of execution_engine that Literal["asyncio", "temporal"] admits;
\* scalars stand for strings, 1 for "asyncio" and 2 for "temporal"
EngineCodes == {1, 2}

\* Settings(**tree) passes validation
Valid(tree) ==
    "execution_engine" \in DOMAIN tree.kv =>
        /\ tree.kv["execution_engine"].kind = "scalar"
        /\ tree.kv["execution_engine"].v \in EngineCodes

\* config_path of get_settings: None, the empty string, or a path
EmptyStr == [dir |-> 0 - 2, name |-> ""]

\* if config_path
Truthy(config_path) == config_path \notin {NoPath, EmptyStr}

\* the cached object is never handed out: every call resolves afresh
CacheHit_never(slot) == FALSE

\* if _settings:
CacheHit(slot) == slot # None

\* a missing explicit path falls back to the locator
ConfigFile_fallback(f, c, config_path) ==
    IF Truthy(config_path) /\ exists(f, config_path) THEN config_path ELSE find_config(f, c)

\* config_file = Path(config_path) if config_path else Settings.find_config()
ConfigFile(f, c, config_path) ==
    IF Truthy(config_path) THEN config_path ELSE find_config(f, c)

\* a parse error is swallowed and the document taken as empty
safe_load_lenient(file) == [raised |-> FALSE, kind |-> IF file.kind = "malformed" THEN "null" ELSE file.kind, tree |-> file.tree]

\* yaml.safe_load(f): raises on malformed YAML
safe_load(file) == [raised |-> file.kind = "malformed", kind |-> file.kind, tree |-> file.tree]

\* yaml.safe_load(f) or {}
OrEmpty(doc) == IF doc.kind = "null" THEN [doc EXCEPT !.kind = "dict", !.tree = EmptyTree] ELSE doc

\* deep_merge on trees given by value: the arguments are built as separate
\* objects, merged on the heap, and the result is read back
merge_trees(b, u) ==
    LET hb == Alloc(<<>>, b)
        hu == Alloc(hb.h, u)
        m == deep_merge(hu.h, hb.r, hu.r)
    IN  Read(m.h, m.r)

\* the arguments of deep_merge exchanged
MergeSecrets_swapped(yaml_settings, yaml_secrets) == merge_trees(yaml_secrets, yaml_settings)

\* merged_settings = deep_merge(merged_settings, yaml_secrets)
MergeSecrets(yaml_settings, yaml_secrets) == merge_trees(yaml_settings, yaml_secrets)

\* the outcome of the statements between the cache test and the assignment
\* to _settings: whether an exception left the function, the tree handed to
\* Settings, the kinds of file opened and the locators called
Loaded(raised, tree, opened, located) ==
    [raised |-> raised, tree |-> tree, opened |-> opened, located |-> located]

Load(f, c, config_path) ==
    LET config_file == ConfigFile(f, c, config_path)
        loc1 == IF Truthy(config_path) THEN {} ELSE {"config"}
    IN  IF config_file = NoPath \/ ~exists(f, config_file)
        THEN \* _settings = Settings()
             Loaded(FALSE, EmptyTree, {}, loc1)
        ELSE LET yaml_settings == OrEmpty(safe_load(f[config_file]))
                 secrets_file == find_secrets(f, c)
                 loc2 == loc1 \cup {"secrets"}
             IN  IF yaml_settings.raised
                 THEN Loaded(TRUE, EmptyTree, {"config"}, loc1)
                 ELSE IF secrets_file # NoPath /\ exists(f, secrets_file)
                      THEN LET yaml_secrets == OrEmpty(safe_load(f[secrets_file]))
                               both == {"config", "secrets"}
                           IN  IF yaml_secrets.raised
                                  \/ yaml_settings.kind # "dict"
                                  \/ yaml_secrets.kind # "dict"
                               THEN Loaded(TRUE, EmptyTree, both, loc2)
                               ELSE LET merged_settings ==
                                            MergeSecrets(yaml_settings.tree, yaml_secrets.tree)
                                    IN  Loaded(~Valid(merged_settings), merged_settings, both, loc2)
                      ELSE IF yaml_settings.kind # "dict"
                           THEN Loaded(TRUE, EmptyTree, {"config"}, loc2)
                           ELSE Loaded(~Valid(yaml_settings.tree), yaml_settings.tree,
                                       {"config"}, loc2)

\* Settings(**merged_settings): a new object
Construct(os, tree) == Append(os, [tree |-> tree])

\* the first assignment wins: a later one keeps the object already there
WriteSlot_first(slot, obj) == IF slot # None THEN slot ELSE obj

\* _settings = Settings(...)
WriteSlot(slot, obj) == obj

Args == {NoPath, EmptyStr, Join(MaxDepth, CustomName)}

NoCall == [outcome |-> "none", hit |-> FALSE, ret |-> None,
           opened |-> {}, located |-> {}]

\* the contents a config file is given, and those a secrets file is given
ConfigA == Dict("a" :> Dict(("x" :> Scalar(1)) @@ ("y" :> Scalar(2))))

ConfigEngine == Dict("execution_engine" :> Scalar(3))

SecretsY == Dict("a" :> Dict("y" :> Scalar(3)))

SecretsA == Dict("a" :> Scalar(3))

SecretsBadEngine == Dict("execution_engine" :> Scalar(3))

ConfigContents ==
    {File("malformed", EmptyTree), File("null", EmptyTree), File("nonmap", EmptyTree),
     File("dict", ConfigA), File("dict", ConfigEngine)}

SecretsContents ==
    {File("malformed", EmptyTree), File("dict", SecretsY), File("dict", SecretsA),
     File("dict", SecretsBadEngine)}

ConfigPaths == {Join(d, ConfigNames[1]) : d \in Dirs} \cup {Join(MaxDepth, CustomName)}

SecretsPaths == {Join(d, SecretsNames[1]) : d \in Dirs}

NoFiles == [p \in {} |-> File("null", Dict(EmptyDict))]

\* the filesystems considered: at most one config file and one secrets file
FsSet(Contents1, Contents2) ==
    {NoFiles}
    \cup {p :> x : p \in ConfigPaths, x \in Contents1}
    \cup {q :> y : q \in SecretsPaths, y \in Contents2}
    \cup {(p :> x) @@ (q :> y) :
             p \in ConfigPaths, x \in Contents1, q \in SecretsPaths, y \in Contents2}

SettingsIdle == _settings = None /\ objs = <<>> /\ call = NoCall

ResolverEnv == cwd \in Dirs /\ fs \in FsSet(ConfigContents, SecretsContents)

\* one whole call get_settings(config_path)
get_settings(config_path) ==
    /\ UNCHANGED <<mvars, evars, lvars, tvars>>
    /\ IF CacheHit(_settings)
       THEN \* return _settings
            /\ call' = [outcome |-> "returned", hit |-> TRUE,
                        ret |-> _settings, opened |-> {}, located |-> {}]
            /\ UNCHANGED <<_settings, objs>>
       ELSE LET l == Load(fs, cwd, config_path)
            IN  IF l.raised
                THEN /\ call' = [outcome |-> "raised", hit |-> FALSE,
                                 ret |-> None, opened |-> l.opened, located |-> l.located]
                     /\ UNCHANGED <<_settings, objs>>
                ELSE /\ objs' = Construct(objs, l.tree)
                     /\ _settings' = WriteSlot(_settings, Len(objs'))
                     /\ call' = [outcome |-> "returned", hit |-> FALSE,
                                 ret |-> _settings', opened |-> l.opened,
                                 located |-> l.located]

GetSettings == \E config_path \in Args : get_settings(config_path)

\* the filesystem f without the path p
Without(f, p) == [q \in DOMAIN f \ {p} |-> f[q]]

\* the file at p, among the paths ps, is written with the contents x
\* (created or rewritten) while no other path of ps holds a file
WriteFile(ps, p, x) ==
    /\ \A q \in ps \ {p} : ~exists(fs, q)
    /\ IF exists(fs, p) THEN fs[p] # x ELSE TRUE
    /\ fs' = (p :> x) @@ Without(fs, p)

\* the file at p is removed
RemoveFile(p) ==
    /\ exists(fs, p)
    /\ fs' = Without(fs, p)

\* between two calls the config file or the secrets file changes
FsChange ==
    /\ \/ \E p \in ConfigPaths, x \in ConfigContents : WriteFile(ConfigPaths, p, x)
       \/ \E p \in SecretsPaths, x \in SecretsContents : WriteFile(SecretsPaths, p, x)
       \/ \E p \in ConfigPaths \cup SecretsPaths : RemoveFile(p)
    /\ UNCHANGED <<mvars, cwd, lvars, svars, tvars>>

(***************************************************************************)
(* get_settings called from several threads.  The interpreter may switch   *)
(* threads between the test of _settings, the assignment to it and the     *)
(* read of it in the return statement.                                     *)
(***************************************************************************)
Threads == {1, 2}

ThreadIdle == [pc |-> "idle", arg |-> NoPath, obj |-> None, ret |-> None, outcome |-> "none"]

\* files that parse and validate
GoodConfigContents == {File("null", EmptyTree), File("dict", ConfigA)}

GoodSecretsContents == {File("dict", SecretsY), File("dict", SecretsA)}

RaceEnv ==
    /\ cwd \in Dirs
    /\ fs \in FsSet(GoodConfigContents, GoodSecretsContents)
    /\ thr = [t \in Threads |-> ThreadIdle]
    /\ written = <<>>

\* the thread calls get_settings(config_path)
TCall(t) ==
    /\ thr[t].pc = "idle"
    /\ \E config_path \in Args : thr' = [thr EXCEPT ![t].pc = "check", ![t].arg = config_path]
    /\ UNCHANGED <<mvars, evars, lvars, svars, written>>

\* if _settings:
TCheck(t) ==
    /\ thr[t].pc = "check"
    /\ thr' = [thr EXCEPT ![t].pc = IF CacheHit(_settings) THEN "hit" ELSE "load"]
    /\ UNCHANGED <<mvars, evars, lvars, svars, written>>

\* return _settings (the cached object)
THit(t) ==
    /\ thr[t].pc = "hit"
    /\ thr' = [thr EXCEPT ![t].pc = "done", ![t].ret = _settings, ![t].outcome = "returned"]
    /\ UNCHANGED <<mvars, evars, lvars, svars, written>>

\* locate, read, merge and construct Settings(...)
TLoad(t) ==
    /\ thr[t].pc = "load"
    /\ LET l == Load(fs, cwd, thr[t].arg)
       IN  IF l.raised
           THEN /\ thr' = [thr EXCEPT ![t].pc = "done", ![t].outcome = "raised"]
                /\ UNCHANGED objs
           ELSE /\ objs' = Construct(objs, l.tree)
                /\ thr' = [thr EXCEPT ![t].pc = "write", ![t].obj = Len(objs')]
    /\ UNCHANGED <<mvars, evars, lvars, _settings, call, written>>

\* _settings = (the object constructed)
TWrite(t) ==
    /\ thr[t].pc = "write"
    /\ _settings' = WriteSlot(_settings, thr[t].obj)
    /\ written' = Append(written, thr[t].obj)
    /\ thr' = [thr EXCEPT ![t].pc = "return"]
    /\ UNCHANGED <<mvars, evars, lvars, objs, call>>

\* return _settings
TReturn(t) ==
    /\ thr[t].pc = "return"
    /\ thr' = [thr EXCEPT ![t].pc = "done", ![t].ret = _settings, ![t].outcome = "returned"]
    /\ UNCHANGED <<mvars, evars, lvars, svars, written>>

vars == <<mvars, evars, lvars, svars, tvars>>

EnvIdle == fs = NoFiles /\ cwd = 0

LocatorIdle == filenames = <<>> /\ loc = LocIdle

ThreadsIdle == thr = <<>> /\ written = <<>>

InitMerge == MergeIdle /\ EnvIdle /\ LocatorIdle /\ SettingsIdle /\ ThreadsIdle

NextMerge == MergeArgs \/ MergeCall

SpecMerge == InitMerge /\ [][NextMerge]_vars

InitLocator == MergeIdle /\ LocatorEnv /\ SettingsIdle /\ ThreadsIdle

NextLocator == FindConfigCall \/ FindSecretsCall \/ FindStep

SpecLocator == InitLocator /\ [][NextLocator]_vars /\ WF_vars(FindStep)

Init == MergeIdle /\ ResolverEnv /\ LocatorIdle /\ SettingsIdle /\ ThreadsIdle

Next == GetSettings \/ FsChange

Spec == Init /\ [][Next]_vars

InitRace == MergeIdle /\ RaceEnv /\ LocatorIdle /\ SettingsIdle

NextRace ==
    \E t \in Threads : TCall(t) \/ TCheck(t) \/ THit(t) \/ TLoad(t) \/ TWrite(t) \/ TReturn(t)

SpecRace == InitRace /\ [][NextRace]_vars

(***************************************************************************)
(* Properties of deep_merge (SpecMerge).                                   *)
(***************************************************************************)
RECURSIVE MergedValue(_, _)
\* the merge of two trees as a value, key by key
MergedValue(b, u) ==
    Dict([k \in DOMAIN b.kv \cup DOMAIN u.kv |->
            IF k \in DOMAIN b.kv /\ k \in DOMAIN u.kv /\ IsDict(b.kv[k]) /\ IsDict(u.kv[k])
            THEN MergedValue(b.kv[k], u.kv[k])
            ELSE IF k \in DOMAIN u.kv THEN u.kv[k] ELSE b.kv[k]])

BaseValue == Read(heap0, baseA)

UpdateValue == Read(heap0, updateA)

ResultValue == Read(heap, resultA)

ExampleBase == Dict("a" :> Dict(("x" :> Scalar(1)) @@ ("y" :> Scalar(2))))

ExampleUpdate == Dict("a" :> Dict("y" :> Scalar(3)))

ExampleResult == Dict("a" :> Dict(("x" :> Scalar(1)) @@ ("y" :> Scalar(3))))

\* C3: the dict deep_merge returns has the union of the keys of base and
\* update; a key whose two values are both dicts holds their merge, any other
\* key of update holds update's value whole, and a key of base alone holds
\* base's value; merge({a:{x:1,y:2}}, {a:{y:3}}) = {a:{x:1,y:3}}.
C3_MergeValue ==
    mpc = "done" =>
        /\ DOMAIN ResultValue.kv = DOMAIN BaseValue.kv \cup DOMAIN UpdateValue.kv
        /\ ResultValue = MergedValue(BaseValue, UpdateValue)
        /\ \A k \in DOMAIN UpdateValue.kv :
              ~(k \in DOMAIN BaseValue.kv /\ IsDict(BaseValue.kv[k]) /\ IsDict(UpdateValue.kv[k]))
                  => ResultValue.kv[k] = UpdateValue.kv[k]
        /\ \A k \in DOMAIN BaseValue.kv \ DOMAIN UpdateValue.kv :
              ResultValue.kv[k] = BaseValue.kv[k]
        /\ (BaseValue = ExampleBase /\ UpdateValue = ExampleUpdate) => ResultValue = ExampleResult

\* the example of the claim has been merged
C3_Witness ==
    /\ mpc = "done"
    /\ BaseValue = ExampleBase
    /\ UpdateValue = ExampleUpdate
    /\ ResultValue = ExampleResult

\* C8: deep_merge leaves every dict object that existed before the call as
\* it was, so base has the value it had, at every depth, and the dict
\* returned is a new object, not base.
C8_BaseNotMutated ==
    mpc = "done" =>
        /\ \A a \in 1..Len(heap0) : heap[a] = heap0[a]
        /\ Read(heap, baseA) = BaseValue
        /\ resultA \notin 1..Len(heap0)
        /\ resultA # baseA

\* a merge that recursed into a nested dict of base and changed a value there
C8_Witness ==
    /\ mpc = "done"
    /\ baseA # updateA
    /\ "a" \in DOMAIN BaseValue.kv /\ IsDict(BaseValue.kv["a"])
    /\ "x" \in DOMAIN BaseValue.kv["a"].kv /\ IsDict(BaseValue.kv["a"].kv["x"])
    /\ "z" \in DOMAIN BaseValue.kv["a"].kv["x"].kv
    /\ "a" \in DOMAIN UpdateValue.kv /\ IsDict(UpdateValue.kv["a"])
    /\ "x" \in DOMAIN UpdateValue.kv["a"].kv /\ IsDict(UpdateValue.kv["a"].kv["x"])
    /\ "z" \in DOMAIN UpdateValue.kv["a"].kv["x"].kv
    /\ ResultValue.kv["a"].kv["x"].kv["z"] # BaseValue.kv["a"].kv["x"].kv["z"]

(***************************************************************************)
(* Properties of the locator (SpecLocator).                                *)
(***************************************************************************)
\* the existing candidates on the chain from the working directory to the
\* root, each as <<directory, position in filenames>>
Candidates == {e \in Chain(cwd) \X (1..Len(filenames)) : exists(fs, Join(e[1], filenames[e[2]]))}

\* e1 is searched before e2: nearer directory first, then filename order
Before(e1, e2) == e1[1] > e2[1] \/ (e1[1] = e2[1] /\ e1[2] < e2[2])

\* C4: the locator returns not found only if no candidate exists in any
\* directory from the working directory up to and including the root.
C4_RootIsSearched ==
    (loc.pc = "done" /\ loc.ret = NoPath) => Candidates = {}

\* C5: a path the locator returns is the first existing candidate, nearest
\* directory first and within a directory in the order of filenames; it
\* names an existing candidate in the working directory or an ancestor.
C5_FirstMatch ==
    (loc.pc = "done" /\ loc.ret # NoPath) =>
        /\ exists(fs, loc.ret)
        /\ loc.ret.dir \in Chain(cwd)
        /\ loc.ret.name \in Range(filenames)
        /\ \E e \in Candidates :
              /\ loc.ret = Join(e[1], filenames[e[2]])
              /\ \A e2 \in Candidates : e2 = e \/ Before(e, e2)

\* the underscored file of the working directory is returned although the
\* hyphenated file exists in the parent
C5_Witness ==
    /\ loc.pc = "done"
    /\ cwd > 1
    /\ filenames = ConfigNames
    /\ ~exists(fs, Join(cwd, ConfigNames[1]))
    /\ exists(fs, Join(cwd, ConfigNames[2]))
    /\ exists(fs, Join(parent(cwd), ConfigNames[1]))
    /\ loc.ret = Join(cwd, ConfigNames[2])

\* C9: every call of the locator returns; the loop body is entered at most
\* once for each directory; with no candidate on the chain the call returns
\* None.
C9_LocatorTerminates ==
    /\ (loc.pc \in {"while", "for"}) ~> (loc.pc = "done")
    /\ [](\A d \in Dirs : loc.visits[d] <= 1)
    /\ []((loc.pc = "done" /\ Candidates = {}) => loc.ret = NoPath)

\* a search from the deepest directory that found nothing
C9_Witness ==
    /\ loc.pc = "done"
    /\ cwd = MaxDepth
    /\ Candidates = {}
    /\ loc.ret = NoPath
    /\ \A d \in Dirs \ {0} : loc.visits[d] = 1

(***************************************************************************)
(* Properties of get_settings called sequentially (Spec).                  *)
(***************************************************************************)
\* C1: once set, _settings keeps its object; a call that returns leaves its
\* object in _settings; a call made with _settings set returns that object
\* and locates and opens no file, whatever its argument and the files.
C1_CacheIsTerminal ==
    [][ /\ _settings # None => _settings' = _settings
        /\ call'.outcome = "returned" => (call'.ret # None /\ _settings' = call'.ret)
        /\ \A p \in Args :
              (get_settings(p) /\ _settings # None) =>
                  /\ call'.outcome = "returned"
                  /\ call'.ret = _settings
                  /\ call'.opened = {}
                  /\ call'.located = {}
                  /\ objs' = objs ]_vars

\* a call answered from the cache although a fresh resolution of the files
\* as they are now would give another tree
C1_Witness ==
    /\ call.hit
    /\ call.outcome = "returned"
    /\ call.ret = _settings
    /\ \A p \in Args :
          /\ ~Load(fs, cwd, p).raised
          /\ Load(fs, cwd, p).tree # objs[_settings].tree

\* the config file a call with argument p uses, if any
ConfigOf(p) == IF Truthy(p) THEN p ELSE find_config(fs, cwd)

\* the tree a parsed file stands for
TreeOf(file) == IF file.kind = "null" THEN EmptyTree ELSE file.tree

Parses(file) == file.kind \in {"null", "dict"}

RECURSIVE KeyPaths(_)
\* the key paths a tree defines
KeyPaths(t) ==
    UNION {{<<k>>} \cup (IF IsDict(t.kv[k]) THEN {<<k>> \o q : q \in KeyPaths(t.kv[k])} ELSE {})
           : k \in DOMAIN t.kv}

RECURSIVE At(_, _)
\* the value of the tree t at the key path q
At(t, q) == IF Len(q) = 1 THEN t.kv[q[1]] ELSE At(t.kv[q[1]], Tail(q))

\* the secrets tree gives a value that is not a mapping at a proper prefix of q
Cut(sec, q) ==
    \E n \in 1..(Len(q) - 1) :
        SubSeq(q, 1, n) \in KeyPaths(sec) /\ ~IsDict(At(sec, SubSeq(q, 1, n)))

\* a call resolves with an existing config file and a secrets file, both parsed
MergeCase(p) ==
    /\ _settings = None
    /\ ConfigOf(p) # NoPath /\ exists(fs, ConfigOf(p)) /\ Parses(fs[ConfigOf(p)])
    /\ find_secrets(fs, cwd) # NoPath /\ Parses(fs[find_secrets(fs, cwd)])

\* a call resolves with an existing, parsed config file and no secrets file
NoSecretsCase(p) ==
    /\ _settings = None
    /\ ConfigOf(p) # NoPath /\ exists(fs, ConfigOf(p)) /\ Parses(fs[ConfigOf(p)])
    /\ find_secrets(fs, cwd) = NoPath

\* C2 as stated: with a secrets file the tree Settings is built from has the
\* secrets value at every key path defined in both trees (two mappings being
\* merged) and the config value at every path of the config tree that the
\* secrets tree does not define; without one it is the config tree.
C2_SecretsWinConfigKept ==
    [][ \A p \in Args :
          /\ (get_settings(p) /\ MergeCase(p) /\ call'.outcome = "returned") =>
                LET cfg == TreeOf(fs[ConfigOf(p)])
                    sec == TreeOf(fs[find_secrets(fs, cwd)])
                    got == objs'[call'.ret].tree
                IN  /\ \A q \in KeyPaths(cfg) \cap KeyPaths(sec) :
                          /\ q \in KeyPaths(got)
                          /\ (IsDict(At(cfg, q)) /\ IsDict(At(sec, q))) \/ At(got, q) = At(sec, q)
                    /\ \A q \in KeyPaths(cfg) \ KeyPaths(sec) :
                          q \in KeyPaths(got) /\ At(got, q) = At(cfg, q)
          /\ (get_settings(p) /\ NoSecretsCase(p) /\ call'.outcome = "returned") =>
                objs'[call'.ret].tree = TreeOf(fs[ConfigOf(p)]) ]_vars

\* C2 amended: the tree Settings is built from is the merge of the config
\* tree and the secrets tree; the secrets value wins at every key path defined
\* in both (two mappings being merged), and a config value at a path the
\* secrets tree does not define is kept unless the secrets tree gives a value
\* that is not a mapping at a prefix of the path; without a secrets file the
\* tree is the config tree.
C2_MergedTreeHanded ==
    [][ \A p \in Args :
          /\ (get_settings(p) /\ MergeCase(p) /\ call'.outcome = "returned") =>
                LET cfg == TreeOf(fs[ConfigOf(p)])
                    sec == TreeOf(fs[find_secrets(fs, cwd)])
                    got == objs'[call'.ret].tree
                IN  /\ got = MergedValue(cfg, sec)
                    /\ call'.opened = {"config", "secrets"}
                    /\ \A q \in KeyPaths(cfg) \cap KeyPaths(sec) :
                          /\ q \in KeyPaths(got)
                          /\ (IsDict(At(cfg, q)) /\ IsDict(At(sec, q))) \/ At(got, q) = At(sec, q)
                    /\ \A q \in KeyPaths(cfg) \ KeyPaths(sec) :
                          ~Cut(sec, q) => (q \in KeyPaths(got) /\ At(got, q) = At(cfg, q))
          /\ (get_settings(p) /\ NoSecretsCase(p) /\ call'.outcome = "returned") =>
                /\ objs'[call'.ret].tree = TreeOf(fs[ConfigOf(p)])
                /\ call'.opened = {"config"} ]_vars

\* a config file and a secrets file of different directories were merged:
\* y comes from the secrets, x is kept from the config
C2_Witness ==
    /\ call.outcome = "returned" /\ ~call.hit
    /\ call.opened = {"config", "secrets"}
    /\ find_config(fs, cwd) # NoPath /\ find_secrets(fs, cwd) # NoPath
    /\ find_config(fs, cwd).dir # find_secrets(fs, cwd).dir
    /\ fs[find_config(fs, cwd)] = File("dict", ConfigA)
    /\ fs[find_secrets(fs, cwd)] = File("dict", SecretsY)
    /\ objs[call.ret].tree = ExampleResult

\* no config file is determined for a call with argument p
NoConfigCase(p) ==
    /\ _settings = None
    /\ \/ ~Truthy(p) /\ find_config(fs, cwd) = NoPath
       \/ Truthy(p) /\ ~exists(fs, p)

\* C6: with _settings unset and no config file determined the call raises
\* nothing, builds the settings from the empty tree, stores and returns the
\* object, opens no file, does not look for secrets, and with a missing
\* explicit path does not call the locator at all.
C6_DefaultsWhenNoConfig ==
    [][ \A p \in Args :
          (get_settings(p) /\ NoConfigCase(p)) =>
              /\ call'.outcome = "returned"
              /\ call'.ret # None
              /\ _settings' = call'.ret
              /\ objs'[call'.ret].tree = EmptyTree
              /\ call'.opened = {}
              /\ "secrets" \notin call'.located
              /\ Truthy(p) => call'.located = {} ]_vars

\* defaults were returned for a missing explicit path although a config
\* file and a secrets file can be found from the working directory
C6_Witness ==
    /\ call.outcome = "returned" /\ ~call.hit
    /\ call.located = {} /\ call.opened = {}
    /\ \A p \in Args : Truthy(p) => ~exists(fs, p)
    /\ find_config(fs, cwd) # NoPath /\ fs[find_config(fs, cwd)].kind = "dict"
    /\ find_secrets(fs, cwd) # NoPath
    /\ objs[call.ret].tree = EmptyTree
    /\ _settings = call.ret

\* the resolution of a call with argument p meets malformed YAML in the
\* config file or in a secrets file that is found, or a merged tree that
\* fails validation
FailureCase(p) ==
    /\ _settings = None
    /\ ConfigOf(p) # NoPath /\ exists(fs, ConfigOf(p))
    /\ LET cf == fs[ConfigOf(p)]
           sp == find_secrets(fs, cwd)
       IN  \/ cf.kind = "malformed"
           \/ sp # NoPath /\ fs[sp].kind = "malformed"
           \/ sp = NoPath /\ Parses(cf) /\ ~Valid(TreeOf(cf))
           \/ sp # NoPath /\ Parses(cf) /\ Parses(fs[sp])
                 /\ ~Valid(MergedValue(TreeOf(cf), TreeOf(fs[sp])))

\* C7: a resolution that fails raises; a call that raises returns no object,
\* constructs none and leaves _settings unset; a call made with _settings
\* unset is never answered from the cache.
C7_ErrorsPropagate ==
    [][ \A p \in Args :
          (get_settings(p) /\ _settings = None) =>
              /\ FailureCase(p) => call'.outcome = "raised"
              /\ call'.outcome = "raised" =>
                    (_settings' = None /\ objs' = objs /\ call'.ret = None)
              /\ ~call'.hit ]_vars

\* a call raised on a malformed secrets file beside a good config file
C7_Witness ==
    /\ call.outcome = "raised"
    /\ _settings = None /\ objs = <<>>
    /\ call.opened = {"config", "secrets"}
    /\ \E p \in ConfigPaths : exists(fs, p) /\ fs[p] = File("dict", ConfigA)
    /\ find_secrets(fs, cwd) # NoPath
    /\ fs[find_secrets(fs, cwd)].kind = "malformed"

(***************************************************************************)
(* Properties of get_settings called from two threads (SpecRace).          *)
(***************************************************************************)
\* C10: every call returns a constructed, valid Settings object and none
\* raises; _settings is unset only while nothing was assigned and otherwise
\* holds the object of the last assignment.
C10_RaceIsBenign ==
    /\ \A t \in Threads :
          thr[t].pc = "done" =>
              /\ thr[t].outcome = "returned"
              /\ thr[t].ret \in 1..Len(objs)
              /\ Valid(objs[thr[t].ret].tree)
    /\ _settings = None <=> written = <<>>
    /\ written # <<>> => (_settings = written[Len(written)] /\ _settings \in 1..Len(objs))

\* both threads saw _settings unset, both loaded and assigned, and the two
\* calls returned different objects
C10_Witness ==
    /\ \A t \in Threads : thr[t].pc = "done" /\ thr[t].outcome = "returned"
    /\ Len(written) = 2
    /\ Len(objs) = 2
    /\ thr[1].ret # thr[2].ret

====
